---- MODULE Spec2Model ----
(***************************************************************************)
(* The Send to Unreal operator (send2ue/operators.py), the job queue it    *)
(* drains on the host's timer events, and the jobs export.send2ue and      *)
(* ingest.assets put on that queue.                                        *)
(***************************************************************************)
EXTENDS Integers, Sequences, FiniteSets, TLC

\* ------------------------------------------------------------------ bounds
MaxMeshes == 2
MaxLods == 1
MaxActions == 1
MaxHairs == 1
\* A second instance is started in the scenes whose runs have at most this
\* many jobs.
MaxSharedJobs == 3
\* The extension tasks of a run set 'skip' on at most this many assets.
MaxSkipped == 1
\* The objects of a scene assign_custom_metadata is called on.
MaxObjects == 4
\* The rig objects of a scene and the actions of a rig.
MaxRigs == 2
MaxRigActions == 2

\* ------------------------------------------------------------ small helpers
Range(s) == {s[i] : i \in 1..Len(s)}

RECURSIVE Flatten(_)
Flatten(ss) == IF ss = <<>> THEN <<>> ELSE Head(ss) \o Flatten(Tail(ss))

Abs(x) == IF x < 0 THEN -x ELSE x

\* ---------------------------------------------------------------- the scene
\* constants.PathModes
SEND_TO_PROJECT == "send_to_project"
SEND_TO_DISK == "send_to_disk"
SEND_TO_DISK_THEN_PROJECT == "send_to_disk_then_project"
PathModes == {SEND_TO_PROJECT, SEND_TO_DISK, SEND_TO_DISK_THEN_PROJECT}

\* constants.UnrealTypes
STATIC_MESH == "StaticMesh"
SKELETAL_MESH == "SkeletalMesh"
ANIM_SEQUENCE == "AnimSequence"
GROOM == "Groom"
LEVEL_SEQUENCE == "LevelSequence"

\* Asset ids.  utilities.get_asset_id hashes the file path; the level sequence
\* has the fixed id "LevelSequenceID"; '' is the cleared current id.
MeshId(i) == <<"mesh", i>>
AnimId(i) == <<"anim", i>>
HairId(i) == <<"hair", i>>
LevelSequenceID == <<"LevelSequenceID", 0>>
NoAssetId == <<"", 0>>

\* A mesh object of the Export collection that is a LOD0: the number of its
\* LOD meshes, whether it has SOCKET_ children, whether it is skinned, and the
\* image files its materials refer to.
MeshKinds ==
    { [lods |-> 0, sockets |-> TRUE, skeletal |-> FALSE, images |-> <<"img_a">>],
      [lods |-> MaxLods, sockets |-> FALSE, skeletal |-> TRUE,
       images |-> <<"img_a", "img_b">>] }

RECURSIVE SeqsUpTo(_, _)
SeqsUpTo(S, n) ==
    IF n = 0 THEN {<<>>}
    ELSE LET shorter == SeqsUpTo(S, n - 1)
         IN  shorter \cup {Append(s, x) : s \in {t \in shorter : Len(t) = n - 1}, x \in S}

\* The scene: the mesh objects, one rig with its actions, the hair systems.
Scenes ==
    [meshes : SeqsUpTo(MeshKinds, MaxMeshes),
     actions : 0..MaxActions,
     hairs : 0..MaxHairs]

\* The properties of the tool (bpy.context.scene.send2ue) the code reads.
AllOn ==
    [import_meshes |-> TRUE, import_animations |-> TRUE, import_grooms |-> TRUE,
     import_lods |-> TRUE, import_materials_and_textures |-> TRUE,
     export_custom_property_fcurves |-> TRUE]

FlagSets ==
    {AllOn} \cup {[AllOn EXCEPT ![f] = FALSE] :
                    f \in {"import_meshes", "import_materials_and_textures"}}

Properties(pm, ls, fl) ==
    [path_mode |-> pm, export_level_sequence |-> ls, flags |-> fl]

\* Every path mode with and without the level sequence, and every set of
\* flags in the mode that sends everything.
PropertySets ==
    {Properties(pm, ls, AllOn) : pm \in PathModes, ls \in BOOLEAN}
    \cup {Properties(SEND_TO_PROJECT, TRUE, fl) : fl \in FlagSets}

\* ------------------------------------------------------- export.send2ue
\* A queued job: the function and the arguments track_progress puts on the
\* queue.  run and n name the run that enqueued it and its place in that run.
Job(fn, asset, lod) == [fn |-> fn, asset |-> asset, lod |-> lod]

\* An asset_data entry, with the keys the jobs read.
Entry(id, type, lods, sockets, images) ==
    [id |-> id, asset_type |-> type, lods |-> lods, sockets |-> sockets,
     images_file_paths |-> images, fcurve_file_path |-> FALSE, skip |-> FALSE]

MeshType(m) == IF m.skeletal THEN SKELETAL_MESH ELSE STATIC_MESH

\* export_lods: one export_mesh job per LOD mesh of the asset, when
\* import_lods is on; the number of LOD files it returns.
export_lods_jobs(i, m, props) ==
    IF props.flags.import_lods
    THEN [k \in 1..m.lods |-> Job("export_mesh", MeshId(i), k)]
    ELSE <<>>

export_lods(m, props) == IF props.flags.import_lods THEN m.lods ELSE 0

\* create_mesh_data: for every mesh, export_mesh is enqueued, then the jobs of
\* export_lods, and the entry is saved.
create_mesh_data(scene, props) ==
    IF ~props.flags.import_meshes
    THEN [jobs |-> <<>>, data |-> <<>>]
    ELSE [jobs |-> Flatten([i \in 1..Len(scene.meshes) |->
                      <<Job("export_mesh", MeshId(i), 0)>>
                      \o export_lods_jobs(i, scene.meshes[i], props)]),
          data |-> [i \in 1..Len(scene.meshes) |->
                      Entry(MeshId(i), MeshType(scene.meshes[i]),
                            export_lods(scene.meshes[i], props),
                            scene.meshes[i].sockets, <<>>)]]

\* create_animation_data: one export_animation job and one entry per action.
create_animation_data(scene, props) ==
    IF ~props.flags.import_animations
    THEN [jobs |-> <<>>, data |-> <<>>]
    ELSE [jobs |-> [j \in 1..scene.actions |-> Job("export_animation", AnimId(j), 0)],
          data |-> [j \in 1..scene.actions |->
                      Entry(AnimId(j), ANIM_SEQUENCE, 0, FALSE, <<>>)]]

\* create_groom_data: one entry and one export_hair job per hair system.
create_groom_data(scene, props) ==
    IF ~props.flags.import_grooms
    THEN [jobs |-> <<>>, data |-> <<>>]
    ELSE [jobs |-> [h \in 1..scene.hairs |-> Job("export_hair", HairId(h), 0)],
          data |-> [h \in 1..scene.hairs |->
                      Entry(HairId(h), GROOM, 0, FALSE, <<>>)]]

\* create_texture_data: merges images_file_paths into the entry of every mesh;
\* mesh_asset_data[asset_id] is a KeyError when create_mesh_data made no entry.
create_texture_data_raises(scene, props) ==
    /\ props.flags.import_materials_and_textures
    /\ ~props.flags.import_meshes
    /\ Len(scene.meshes) > 0

create_texture_data(scene, mesh_data, props) ==
    IF ~props.flags.import_materials_and_textures
    THEN mesh_data
    ELSE [i \in 1..Len(mesh_data) |->
            [mesh_data[i] EXCEPT !.images_file_paths = scene.meshes[i].images,
                                 !.skip = FALSE]]

\* create_level_sequence_data: always one entry, under the fixed id.
create_level_sequence_data ==
    <<Entry(LevelSequenceID, LEVEL_SEQUENCE, 0, FALSE, <<>>)>>

\* create_asset_data: the jobs it enqueues, in order, and the asset data it
\* stores ({**mesh_data, **animation_data, **hair_data, **level_sequence_data});
\* when create_texture_data raises, the export jobs are already on the queue
\* and asset_data is not updated.
create_asset_data(scene, props) ==
    LET mesh == create_mesh_data(scene, props)
        anim == create_animation_data(scene, props)
        hair == create_groom_data(scene, props)
        jobs == mesh.jobs \o anim.jobs \o hair.jobs
    IN  IF create_texture_data_raises(scene, props)
        THEN [raised |-> TRUE, jobs |-> jobs, data |-> <<>>]
        ELSE [raised |-> FALSE, jobs |-> jobs,
              data |-> create_texture_data(scene, mesh.data, props) \o anim.data
                       \o hair.data \o create_level_sequence_data]

\* A faulty path-mode test: every mode counts as a project mode.
IsProjectMode_any(pm) == TRUE

\* ingest.assets: the import jobs it enqueues for the stored asset data.
IsProjectMode(pm) == pm \in {SEND_TO_PROJECT, SEND_TO_DISK_THEN_PROJECT}

import_jobs_of(e) ==
    <<Job("import_asset", e.id, 0)>>
    \o (IF e.lods > 0
        THEN <<Job("reset_lods", e.id, 0), Job("import_lod_files", e.id, 0),
               Job("set_lod_build_settings", e.id, 0)>>
        ELSE <<>>)
    \o (IF e.sockets THEN <<Job("create_static_mesh_sockets", e.id, 0)>> ELSE <<>>)

\* A faulty ingest.assets: the level sequence job is enqueued first.
assets_level_first(data, props) ==
    IF data # <<>> /\ props.path_mode \in {SEND_TO_PROJECT, SEND_TO_DISK_THEN_PROJECT}
    THEN LET others == SelectSeq(data, LAMBDA e : e.asset_type # LEVEL_SEQUENCE)
             level == SelectSeq(data, LAMBDA e : e.asset_type = LEVEL_SEQUENCE)
         IN  (IF level # <<>> /\ props.export_level_sequence
              THEN <<Job("import_level_sequence", level[Len(level)].id, 0)>>
              ELSE <<>>)
             \o Flatten([i \in 1..Len(others) |-> import_jobs_of(others[i])])
    ELSE <<>>

assets(data, props) ==
    IF data # <<>> /\ IsProjectMode(props.path_mode)
    THEN LET others == SelectSeq(data, LAMBDA e : e.asset_type # LEVEL_SEQUENCE)
             level == SelectSeq(data, LAMBDA e : e.asset_type = LEVEL_SEQUENCE)
         IN  Flatten([i \in 1..Len(others) |-> import_jobs_of(others[i])])
             \o (IF level # <<>> /\ props.export_level_sequence
                 THEN <<Job("import_level_sequence", level[Len(level)].id, 0)>>
                 ELSE <<>>)
    ELSE <<>>

\* A faulty send2ue: ingest.assets runs before the export jobs are enqueued.
send2ue_imports_first(scene, props, valid) ==
    IF ~valid
    THEN [raised |-> FALSE, jobs |-> <<>>, data |-> <<>>]
    ELSE LET c == create_asset_data(scene, props)
         IN  IF c.raised THEN c
             ELSE [raised |-> FALSE, jobs |-> assets(c.data, props) \o c.jobs,
                   data |-> c.data]

\* A faulty send2ue: the result of the validations is not looked at.
send2ue_unvalidated(scene, props, valid) ==
    LET c == create_asset_data(scene, props)
    IN  IF c.raised THEN c
        ELSE [raised |-> FALSE, jobs |-> c.jobs \o assets(c.data, props),
              data |-> c.data]

\* export.send2ue: clears the current id and the asset data, and when the
\* validations pass runs create_asset_data and then ingest.assets.
send2ue(scene, props, valid) ==
    IF ~valid
    THEN [raised |-> FALSE, jobs |-> <<>>, data |-> <<>>]
    ELSE LET c == create_asset_data(scene, props)
         IN  IF c.raised THEN c
             ELSE [raised |-> FALSE, jobs |-> c.jobs \o assets(c.data, props),
                   data |-> c.data]

\* ------------------------------------------------------------- the jobs
\* What a job does to the world outside the asset data: an effect on disk or
\* on the scene ("fx") or a remote call into the editor ("remote").
Fx(kind, fn, asset, lod, arg) ==
    [kind |-> kind, fn |-> fn, asset |-> asset, lod |-> lod, arg |-> arg]

\* The outcome of a job or of a part of one.
Out(data, evs, raised) == [data |-> data, evs |-> evs, raised |-> raised]

HasAsset(data, id) == \E i \in 1..Len(data) : data[i].id = id
IndexOf(data, id) == CHOOSE i \in 1..Len(data) : data[i].id = id
AssetOf(data, id) == data[IndexOf(data, id)]

\* extension.run_extension_tasks: an extension task reads and writes the
\* asset data; sk is what the registered task does to the 'skip' keys.
ExtChoices == {"none", "current", "level_sequence"}

run_extension_tasks(data, asset_id, sk) ==
    LET target == IF sk = "current" THEN asset_id ELSE LevelSequenceID
    IN  IF sk # "none" /\ HasAsset(data, target)
        THEN [data EXCEPT ![IndexOf(data, target)].skip = TRUE]
        ELSE data

\* export_file: reads the entry of the current asset id, returns when 'skip'
\* is set, else creates the folder, assigns the metadata, calls the exporter
\* (which may raise) and deletes the metadata.
export_file(data, asset_id, lod, file_type, fails) ==
    IF ~HasAsset(data, asset_id)
    THEN Out(data, <<>>, TRUE)
    ELSE IF AssetOf(data, asset_id).skip
    THEN Out(data, <<>>, FALSE)
    ELSE LET before == << Fx("fx", "makedirs", asset_id, lod, <<>>),
                          Fx("fx", "assign_custom_metadata", asset_id, lod, <<>>),
                          Fx("fx", file_type, asset_id, lod, <<>>) >>
         IN  IF fails
             THEN Out(data, before, TRUE)
             ELSE Out(data,
                      Append(before, Fx("fx", "delete_custom_metadata", asset_id, lod, <<>>)),
                      FALSE)

\* export_custom_property_fcurves: writes the fcurve file of the current
\* asset when the action has custom property fcurves and the option is on,
\* and stores its path (or None) in the entry.
export_custom_property_fcurves(data, asset_id, props, fc) ==
    IF ~HasAsset(data, asset_id)
    THEN Out(data, <<>>, TRUE)
    ELSE LET written == fc /\ props.flags.export_custom_property_fcurves
         IN  Out([data EXCEPT ![IndexOf(data, asset_id)].fcurve_file_path = written],
                 IF written
                 THEN <<Fx("fx", "write_fcurve_file", asset_id, 0, <<>>)>>
                 ELSE <<>>,
                 FALSE)

export_mesh(data, asset_id, lod, sk, fails) ==
    LET d1 == IF lod = 0 THEN run_extension_tasks(data, asset_id, sk) ELSE data
    IN  export_file(d1, asset_id, lod, "export_fbx_file", fails)

export_animation(data, asset_id, props, sk, fails, fc) ==
    LET d1 == run_extension_tasks(data, asset_id, sk)
        e == export_file(d1, asset_id, 0, "export_fbx_file", fails)
    IN  IF e.raised THEN e
        ELSE LET f == export_custom_property_fcurves(e.data, asset_id, props, fc)
             IN  Out(f.data, e.evs \o f.evs, f.raised)

export_hair(data, asset_id, sk, fails) ==
    IF ~HasAsset(data, asset_id)
    THEN Out(data, <<>>, TRUE)
    ELSE export_file(run_extension_tasks(data, asset_id, sk), asset_id, 0,
                     "export_alembic_file", fails)

\* A remote call: it is made, and it raises when the editor fails.
Remote(data, call, fails) == Out(data, <<call>>, fails)

import_level_sequence(data, asset_id, fails) ==
    IF ~HasAsset(data, asset_id)
    THEN Out(data, <<>>, TRUE)
    ELSE IF ~AssetOf(data, asset_id).skip
    THEN Remote(data, Fx("remote", "import_level_sequence", asset_id, 0, <<>>), fails)
    ELSE Out(data, <<>>, FALSE)

\* list.remove: the first occurrence of x.
RECURSIVE RemoveFirst(_, _)
RemoveFirst(L, x) ==
    IF L = <<>> THEN <<>>
    ELSE IF Head(L) = x THEN Tail(L)
    ELSE <<Head(L)>> \o RemoveFirst(Tail(L), x)

\* "for image_path in own: if image_path in other: other.remove(image_path)"
\* for another entry's list ...
RECURSIVE RemoveEach(_, _)
RemoveEach(other, own) ==
    IF own = <<>> THEN other
    ELSE RemoveEach(IF Head(own) \in Range(other) THEN RemoveFirst(other, Head(own))
                    ELSE other,
                    Tail(own))

\* ... and for the asset's own list, which the loop iterates over by index
\* while it removes from it.
RECURSIVE RemoveEachOfItself(_, _)
RemoveEachOfItself(L, i) ==
    IF i > Len(L) THEN L
    ELSE RemoveEachOfItself(RemoveFirst(L, L[i]), i + 1)

\* import_asset, lines 53-57: every entry of asset_data in order, the asset's
\* own entry included.
RECURSIVE remove_duplicate_images(_, _, _)
remove_duplicate_images(data, self, k) ==
    IF k > Len(data) THEN data
    ELSE LET own == data[self].images_file_paths
             now == IF k = self
                    THEN RemoveEachOfItself(own, 1)
                    ELSE RemoveEach(data[k].images_file_paths, own)
         IN  remove_duplicate_images([data EXCEPT ![k].images_file_paths = now],
                                     self, k + 1)

import_asset(data, asset_id, sk, fails) ==
    LET d1 == run_extension_tasks(data, asset_id, sk)
    IN  IF ~HasAsset(d1, asset_id)
        THEN Out(d1, <<>>, TRUE)
        ELSE LET a == AssetOf(d1, asset_id)
                 images == IF a.images_file_paths # <<>>
                           THEN <<Fx("remote", "import_images", asset_id, 0,
                                     a.images_file_paths)>>
                           ELSE <<>>
                 d2 == IF a.images_file_paths # <<>>
                       THEN remove_duplicate_images(d1, IndexOf(d1, asset_id), 1)
                       ELSE d1
                 asset == <<Fx("remote", "import_asset", asset_id, 0, <<>>)>>
                 fcurves == IF a.fcurve_file_path
                            THEN <<Fx("remote", "import_animation_fcurves", asset_id, 0, <<>>)>>
                            ELSE <<>>
             IN  IF a.skip THEN Out(d1, <<>>, FALSE)
                 ELSE IF fails /\ images # <<>> THEN Out(d1, images, TRUE)
                 ELSE IF fails THEN Out(d2, images \o asset, TRUE)
                 ELSE Out(d2, images \o asset \o fcurves, FALSE)

create_static_mesh_sockets(data, asset_id, fails) ==
    IF ~HasAsset(data, asset_id)
    THEN Out(data, <<>>, TRUE)
    ELSE IF AssetOf(data, asset_id).skip
    THEN Out(data, <<>>, FALSE)
    ELSE Remote(data, Fx("remote", "set_static_mesh_sockets", asset_id, 0, <<>>), fails)

reset_lods(data, asset_id, fails) ==
    IF ~HasAsset(data, asset_id)
    THEN Out(data, <<>>, TRUE)
    ELSE LET a == AssetOf(data, asset_id)
         IN  IF a.skip THEN Out(data, <<>>, FALSE)
             ELSE Remote(data,
                         Fx("remote",
                            IF a.asset_type = SKELETAL_MESH
                            THEN "reset_skeletal_mesh_lods"
                            ELSE "reset_static_mesh_lods",
                            asset_id, 0, <<>>),
                         fails)

\* The remote calls of a loop over range(first, lods + 1); the first one is
\* the one that raises.
LodCalls(a, skeletal_fn, static_fn, first, fails) ==
    LET fn == IF a.asset_type = SKELETAL_MESH THEN skeletal_fn ELSE static_fn
        n == IF fails THEN first ELSE a.lods
    IN  [k \in 1..(n - first + 1) |-> Fx("remote", fn, a.id, first + k - 1, <<>>)]

import_lod_files(data, asset_id, fails) ==
    IF ~HasAsset(data, asset_id)
    THEN Out(data, <<>>, TRUE)
    ELSE LET a == AssetOf(data, asset_id)
         IN  IF a.skip THEN Out(data, <<>>, FALSE)
             ELSE Out(data,
                      LodCalls(a, "import_skeletal_mesh_lod", "import_static_mesh_lod",
                               1, fails /\ a.lods >= 1),
                      fails /\ a.lods >= 1)

set_lod_build_settings(data, asset_id, fails) ==
    IF ~HasAsset(data, asset_id)
    THEN Out(data, <<>>, TRUE)
    ELSE LET a == AssetOf(data, asset_id)
         IN  IF a.skip THEN Out(data, <<>>, FALSE)
             ELSE Out(data,
                      LodCalls(a, "set_skeletal_mesh_lod_build_settings",
                               "set_static_mesh_lod_build_settings", 0, fails),
                      fails)

\* function(*args, **kwargs) of a queued job.  sk: what the extension tasks
\* the job runs do; fails: its exporter or its remote call raises; fc: the
\* action has custom property fcurves.
RunJob(job, data, props, sk, fails, fc) ==
    CASE job.fn = "export_mesh" -> export_mesh(data, job.asset, job.lod, sk, fails)
      [] job.fn = "export_animation" -> export_animation(data, job.asset, props, sk, fails, fc)
      [] job.fn = "export_hair" -> export_hair(data, job.asset, sk, fails)
      [] job.fn = "import_asset" -> import_asset(data, job.asset, sk, fails)
      [] job.fn = "import_level_sequence" -> import_level_sequence(data, job.asset, fails)
      [] job.fn = "create_static_mesh_sockets" -> create_static_mesh_sockets(data, job.asset, fails)
      [] job.fn = "reset_lods" -> reset_lods(data, job.asset, fails)
      [] job.fn = "import_lod_files" -> import_lod_files(data, job.asset, fails)
      [] OTHER -> set_lod_build_settings(data, job.asset, fails)

\* ------------------------------------------------------------ the operator
VARIABLES
    scene,          \* the scene the exports read
    props,          \* bpy.context.scene.send2ue
    queue,          \* bpy.app.driver_namespace[EXECUTION_QUEUE], shared
    asset_data,     \* window_manager.send2ue.asset_data, in dict order
    asset_id,       \* window_manager.send2ue.asset_id
    ops,            \* the Send2Ue instances: their fields and where they are
    handlers,       \* the window's modal handlers, newest first
    pending,        \* the handlers the current TIMER event is still to be given to
    draw_handlers,  \* draw_progress entries of STATUSBAR_HT_header
    status_text,    \* the workspace status text
    progress,       \* window_manager.send2ue.progress
    log,            \* history: what has happened since the last run started, in order
    last_call,      \* history: the last call of invoke, execute or modal
    objs,           \* the objects assign_custom_metadata is called on
    blender_metadata, \* obj[METADATA_NAME] of every mesh object, once assigned
    rigs,           \* the rig objects: the mute value of each of their actions
    action_names,   \* utilities.get_action_names of each rig: the actions to export
    anim_queue,     \* the export_animation jobs create_animation_data enqueued
    anim_pc,        \* where create_animation_data or the running job is
    anim_done,      \* history: the export_animation jobs that have returned
    nodes,          \* material.node_tree.nodes of the material
    texture_prefix, \* get_texture_affix(properties)
    material_metadata \* what create_material_metadata returned, once called

\* The state of the operator and its queue, and the state of the functions
\* that are followed on their own.
opVars == <<scene, props, queue, asset_data, asset_id, ops, handlers, pending,
            draw_handlers, status_text, progress, log, last_call>>
metaVars == <<objs, blender_metadata>>
animVars == <<rigs, action_names, anim_queue, anim_pc, anim_done>>
matVars == <<nodes, texture_prefix, material_metadata>>
pureVars == <<metaVars, animVars, matVars>>

vars == <<opVars, pureVars>>

\* The functions followed on their own are not running.
MetaIdle == objs = <<>> /\ blender_metadata = <<>>
AnimIdle ==
    /\ rigs = <<>>
    /\ action_names = <<>>
    /\ anim_queue = <<>>
    /\ anim_pc = [at |-> "idle", rig |-> 0, action |-> 0]
    /\ anim_done = 0
MatIdle == nodes = <<>> /\ texture_prefix = <<>> /\ material_metadata = <<>>

Ops == {1, 2}

\* Send2Ue.__init__
NewOp ==
    [state |-> "new", timer |-> FALSE, escape |-> FALSE, done |-> FALSE,
     max_step |-> 0,
     \* history: how the run started, whether ESC was delivered, and the calls
     \* of pre_operation and post_operation
     run |-> "none", esc |-> FALSE, pre |-> 0, post |-> 0]

\* An entry of the history.
\* skip: for a job that ran, and for what it did, whether the entry of its
\* asset had 'skip' set when the job read it.
Ev(ev, o, fn, asset, lod, run, n, arg, skip) ==
    [ev |-> ev, op |-> o, fn |-> fn, asset |-> asset, lod |-> lod,
     run |-> run, n |-> n, arg |-> arg, skip |-> skip]

OpEv(ev, o) == Ev(ev, o, "", NoAssetId, 0, o, 0, <<>>, FALSE)
JobEv(ev, o, job, skip) ==
    Ev(ev, o, job.fn, job.asset, job.lod, job.run, job.n, <<>>, skip)
FxEv(o, job, fx, skip) ==
    Ev(fx.kind, o, fx.fn, fx.asset, fx.lod, job.run, job.n, fx.arg, skip)

Call(o, kind, e, ret, jobs) ==
    [op |-> o, kind |-> kind, event |-> e, ret |-> ret, jobs |-> jobs]

\* utilities.track_progress: calling a decorated function puts the job on the
\* shared queue; run o enqueues jobs as its jobs 1, 2, ...
track_progress(jobs, o) ==
    [i \in 1..Len(jobs) |->
        [fn |-> jobs[i].fn, asset |-> jobs[i].asset, lod |-> jobs[i].lod,
         run |-> o, n |-> i]]

\* The current asset id while a job runs is the id of the job's asset.
CurrentAssetId(job) == job.asset

\* One job taken off the queue and called: the history it leaves, the asset
\* data after it, and whether it raised.
ExecJob(o, job, data, pr, sk, fails, fc) ==
    LET r == RunJob(job, data, pr, sk, fails, fc)
        skip == HasAsset(r.data, job.asset) /\ AssetOf(r.data, job.asset).skip
    IN  [data |-> r.data,
         evs |-> <<JobEv("exec", o, job, skip)>>
                 \o [i \in 1..Len(r.evs) |-> FxEv(o, job, r.evs[i], skip)],
         raised |-> r.raised]

\* A faulty post_operation: the extensions' operators are not run.
post_operation_never(o) == <<>>

\* Send2Ue.pre_operation and Send2Ue.post_operation run the extensions'
\* operators; the history records the call.
pre_operation(o) == <<OpEv("pre", o)>>
post_operation(o) == <<OpEv("post", o)>>

Init ==
    /\ scene \in Scenes
    /\ props \in PropertySets
    /\ queue = <<>>
    /\ asset_data = <<>>
    /\ asset_id = NoAssetId
    /\ ops = [o \in Ops |->
                IF o = 1 \/ Len(send2ue(scene, props, TRUE).jobs) <= MaxSharedJobs
                THEN NewOp
                ELSE [NewOp EXCEPT !.state = "absent"]]
    /\ handlers = <<>>
    /\ pending = <<>>
    /\ draw_handlers = 0
    /\ status_text = "None"
    /\ progress = 0
    /\ log = <<>>
    /\ last_call = Call(0, "none", "NONE", "NONE", 0)
    /\ MetaIdle
    /\ AnimIdle
    /\ MatIdle

\* The host runs one callback at a time.
Idle == pending = <<>> /\ \A o \in Ops : ops[o].state # "executing"

\* A new instance is created for every run; instance 2 is the later one.
CanStart(o) ==
    /\ ops[o].state = "new"
    /\ Idle
    /\ \A p \in Ops : p < o => ops[p].state # "new"

\* history: how a run started.
RunKind(connected, valid) ==
    IF ~connected THEN "disconnected" ELSE IF valid THEN "valid" ELSE "invalid"

\* A faulty connection test: the editor always counts as connected.
is_unreal_connected_always(connected) == TRUE

\* The result of utilities.is_unreal_connected().
is_unreal_connected(connected) == connected

\* Send2Ue.invoke
Invoke(o, connected, valid) ==
    /\ CanStart(o)
    /\ IF ~is_unreal_connected(connected)
       THEN /\ ops' = [ops EXCEPT ![o].state = "finished", ![o].run = "disconnected"]
            /\ last_call' = Call(o, "invoke", "NONE", "FINISHED", 0)
            /\ UNCHANGED <<queue, asset_data, asset_id, handlers, draw_handlers,
                           status_text, progress, log>>
       ELSE LET r == send2ue(scene, props, valid)
                q == track_progress(r.jobs, o)
            IN  /\ queue' = q
                /\ asset_data' = r.data
                /\ asset_id' = NoAssetId
                /\ progress' = 0
                /\ status_text' = "Validating..."
                /\ log' = pre_operation(o)
                              \o [i \in 1..Len(q) |-> JobEv("enq", o, q[i], FALSE)]
                /\ IF r.raised
                   THEN /\ ops' = [ops EXCEPT ![o].state = "raised",
                                              ![o].run = RunKind(connected, valid),
                                              ![o].pre = @ + Len(pre_operation(o))]
                        /\ last_call' = Call(o, "invoke", "NONE", "raise", 0)
                        /\ UNCHANGED <<handlers, draw_handlers>>
                   ELSE /\ ops' = [ops EXCEPT ![o].state = "modal",
                                              ![o].run = RunKind(connected, valid),
                                              ![o].pre = @ + Len(pre_operation(o)),
                                              ![o].max_step = Len(q), ![o].timer = TRUE]
                        /\ handlers' = <<o>> \o handlers
                        /\ draw_handlers' = draw_handlers + 1
                        /\ last_call' = Call(o, "invoke", "NONE", "RUNNING_MODAL", 0)
    /\ UNCHANGED <<scene, props, pending,
                   objs, blender_metadata, rigs, action_names, anim_queue,
                   anim_pc, anim_done, nodes, texture_prefix, material_metadata>>

EventTypes == {"TIMER", "ESC", "MOUSEMOVE"}

\* A faulty queue: the newest job is taken first.
queue_get_lifo(q) == [job |-> q[Len(q)], rest |-> SubSeq(q, 1, Len(q) - 1)]

\* A faulty queue: the job is read and stays on the queue.
queue_get_peek(q) == [job |-> Head(q), rest |-> q]

\* A faulty clear: the jobs stay on the queue.
queue_clear_keeps(q) == q

\* queue.Queue.get, and the clear of the queue's deque.
queue_get(q) == [job |-> Head(q), rest |-> Tail(q)]
queue_clear(q) == <<>>

\* The inputs of a job that the job reads: only export_animation looks for
\* fcurves, only these jobs run extension tasks before they read 'skip'.
RunsExtensionTasks(job) ==
    \/ job.fn \in {"export_animation", "export_hair", "import_asset"}
    \/ job.fn = "export_mesh" /\ job.lod = 0

Skipped(data) == {i \in 1..Len(data) : data[i].skip}

JobInputs(job, sk, fails, fc) ==
    /\ sk # "none" => RunsExtensionTasks(job) /\ Cardinality(Skipped(asset_data)) < MaxSkipped
    /\ fc => job.fn = "export_animation"

NoInputs(sk, fails, fc) == sk = "none" /\ ~fails /\ ~fc

\* abs(((step / max_step) * 100) - 1), in whole numbers.
Progress(step, max_step) == Abs((step * 100) \div max_step - 1)

RemoveOp(hs, o) == SelectSeq(hs, LAMBDA h : h # o)

\* The test of the event type that guards the job execution.
IsTimerEvent(e) == e = "TIMER"

\* The host gives an event to a modal handler: a TIMER event to every modal
\* handler, newest first, any other event to the newest handler only, which
\* keeps it by returning RUNNING_MODAL.  The handlers still to be called.
Receivers(event) ==
    IF pending # <<>> THEN pending
    ELSE IF event = "TIMER" THEN handlers
    ELSE <<Head(handlers)>>

\* Send2Ue.modal, called by the host with an event.
Modal(event, sk, fails, fc) ==
    /\ \/ pending # <<>> /\ event = "TIMER"
       \/ Idle /\ handlers # <<>>
    /\ LET o == Head(Receivers(event))
           self == ops[o]
           done1 == IF queue = <<>> THEN TRUE ELSE self.done
           escape1 == IF event = "ESC" THEN TRUE ELSE self.escape
           q1 == IF event = "ESC" THEN queue_clear(queue) ELSE queue
           takes == IsTimerEvent(event) /\ q1 # <<>>
           g == queue_get(q1)
           x == ExecJob(o, g.job, asset_data, props, sk, fails, fc)
           zero == takes /\ self.max_step = 0
           raises == zero \/ (takes /\ x.raised)
           finishes == IsTimerEvent(event) /\ ~raises /\ escape1
           completes == IsTimerEvent(event) /\ ~raises /\ ~escape1 /\ done1
       IN  /\ IF takes THEN JobInputs(g.job, sk, fails, fc) ELSE NoInputs(sk, fails, fc)
           /\ zero => NoInputs(sk, fails, fc)
           /\ queue' = IF takes THEN g.rest ELSE q1
           /\ asset_id' = IF takes /\ ~zero THEN CurrentAssetId(g.job) ELSE asset_id
           /\ asset_data' = IF takes /\ ~zero THEN x.data ELSE asset_data
           /\ log' = log \o (IF event = "ESC" /\ ~self.esc THEN <<OpEv("esc", o)>> ELSE <<>>)
                         \o (IF takes /\ ~zero THEN x.evs ELSE <<>>)
                         \o (IF finishes THEN post_operation(o) ELSE <<>>)
           /\ progress' =
                IF completes THEN 100
                ELSE IF takes /\ ~zero
                THEN Progress(self.max_step - Len(g.rest), self.max_step)
                ELSE progress
           /\ status_text' =
                IF finishes THEN "None"
                ELSE IF completes THEN "Finished!"
                ELSE IF takes /\ ~raises THEN g.job.fn
                ELSE status_text
           /\ ops' = [ops EXCEPT
                ![o].done = done1,
                ![o].escape = escape1 \/ completes,
                ![o].timer = IF finishes THEN FALSE ELSE @,
                ![o].post = IF finishes THEN @ + Len(post_operation(o)) ELSE @,
                ![o].esc = @ \/ event = "ESC",
                ![o].state = IF raises THEN "raised"
                             ELSE IF finishes THEN "finished" ELSE @]
           /\ draw_handlers' = IF finishes THEN draw_handlers - 1 ELSE draw_handlers
           /\ handlers' = IF raises \/ finishes THEN RemoveOp(handlers, o) ELSE handlers
           /\ last_call' = Call(o, "modal", event,
                                IF raises THEN "raise"
                                ELSE IF finishes THEN "FINISHED" ELSE "RUNNING_MODAL",
                                IF takes /\ ~zero THEN 1 ELSE 0)
    /\ pending' = Tail(Receivers(event))
    /\ UNCHANGED <<scene, props,
                   objs, blender_metadata, rigs, action_names, anim_queue,
                   anim_pc, anim_done, nodes, texture_prefix, material_metadata>>

\* Send2Ue.execute, up to its loop: the host calls it and it runs to its end
\* before the host does anything else; the model follows it job by job.
Execute(o, connected, valid) ==
    /\ CanStart(o)
    /\ IF ~is_unreal_connected(connected)
       THEN /\ ops' = [ops EXCEPT ![o].state = "finished", ![o].run = "disconnected"]
            /\ last_call' = Call(o, "execute", "NONE", "FINISHED", 0)
            /\ UNCHANGED <<queue, asset_data, asset_id, log>>
       ELSE LET r == send2ue(scene, props, valid)
                q == track_progress(r.jobs, o)
            IN  /\ queue' = q
                /\ asset_data' = r.data
                /\ asset_id' = NoAssetId
                /\ log' = pre_operation(o)
                              \o [i \in 1..Len(q) |-> JobEv("enq", o, q[i], FALSE)]
                /\ ops' = [ops EXCEPT
                      ![o].state = IF r.raised THEN "raised" ELSE "executing",
                      ![o].run = RunKind(connected, valid),
                      ![o].pre = @ + Len(pre_operation(o))]
                /\ last_call' = Call(o, "execute", "NONE",
                                     IF r.raised THEN "raise" ELSE "running", 0)
    /\ UNCHANGED <<scene, props, handlers, pending, draw_handlers,
                   status_text, progress,
                   objs, blender_metadata, rigs, action_names, anim_queue,
                   anim_pc, anim_done, nodes, texture_prefix, material_metadata>>

\* One turn of "while not self.execution_queue.empty(): get(); function(...)",
\* or the end of execute() when the queue is empty.
ExecuteLoop(o, sk, fails, fc) ==
    /\ ops[o].state = "executing"
    /\ IF queue = <<>>
       THEN /\ NoInputs(sk, fails, fc)
            /\ log' = log \o post_operation(o)
            /\ ops' = [ops EXCEPT ![o].state = "finished",
                                  ![o].post = @ + Len(post_operation(o))]
            /\ last_call' = [last_call EXCEPT !.ret = "FINISHED"]
            /\ UNCHANGED <<queue, asset_data, asset_id>>
       ELSE LET g == queue_get(queue)
                x == ExecJob(o, g.job, asset_data, props, sk, fails, fc)
            IN  /\ JobInputs(g.job, sk, fails, fc)
                /\ queue' = g.rest
                /\ asset_data' = x.data
                /\ asset_id' = CurrentAssetId(g.job)
                /\ log' = log \o x.evs
                /\ ops' = [ops EXCEPT ![o].state = IF x.raised THEN "raised" ELSE @]
                /\ last_call' = [last_call EXCEPT
                      !.ret = IF x.raised THEN "raise" ELSE @,
                      !.jobs = @ + 1]
    /\ UNCHANGED <<scene, props, handlers, pending, draw_handlers,
                   status_text, progress,
                   objs, blender_metadata, rigs, action_names, anim_queue,
                   anim_pc, anim_done, nodes, texture_prefix, material_metadata>>

Next ==
    \/ \E o \in Ops, connected \in BOOLEAN, valid \in BOOLEAN :
          Invoke(o, connected, valid)
    \/ \E o \in Ops, connected \in BOOLEAN, valid \in BOOLEAN :
          Execute(o, connected, valid)
    \/ \E o \in Ops, sk \in ExtChoices, fails \in BOOLEAN, fc \in BOOLEAN :
          ExecuteLoop(o, sk, fails, fc)
    \/ \E e \in EventTypes, sk \in ExtChoices, fails \in BOOLEAN, fc \in BOOLEAN :
          Modal(e, sk, fails, fc)

Spec == Init /\ [][Next]_vars

\* ------------------------------------------- metadata.assign_custom_metadata
\* The objects of the scene in the order of bpy.data.collections['Export'];
\* object i has a type, a parent (0: none, else an object before it), and a
\* mesh has its material slots and its send2ue_mesh category.
ObjKinds ==
    { [type |-> "EMPTY", materials |-> <<>>, category |-> "None"],
      [type |-> "ARMATURE", materials |-> <<>>, category |-> "None"],
      [type |-> "MESH", materials |-> <<"mat_a">>, category |-> "None"],
      [type |-> "MESH", materials |-> <<"mat_b">>, category |-> "Observable"],
      [type |-> "MESH", materials |-> <<"mat_a", "mat_c">>, category |-> "None"] }

ObjectSets(max) ==
    UNION { { [i \in 1..n |-> [type |-> k[i].type, materials |-> k[i].materials,
                               category |-> k[i].category, parent |-> par[i]]] :
                k \in [1..n -> ObjKinds],
                par \in {f \in [1..n -> 0..(n - 1)] : \A i \in 1..n : f[i] < i} } :
            n \in 1..max }

\* None is the empty tuple, and a value that may be None is <<value>>.
None == <<>>

\* get_mesh_objs
get_mesh_objs(os) == SelectSeq([i \in 1..Len(os) |-> i], LAMBDA i : os[i].type = "MESH")

\* get_empty_metadata
get_empty_metadata == [materials |-> <<>>, armature |-> None, mesh |-> None]

\* get_highest_ancestor: "parent = obj.parent; while parent and parent.type
\* not in [EMPTY, ARMATURE]: parent = parent.parent".
RECURSIVE climb(_, _)
climb(os, parent) ==
    IF parent # 0 /\ os[parent].type \notin {"EMPTY", "ARMATURE"}
    THEN climb(os, os[parent].parent)
    ELSE parent

get_highest_ancestor(os, i) == climb(os, os[i].parent)

\* A dict of materials is the sequence of its keys in insertion order; the
\* value under a key is the metadata of the material of that name.
\* "b | c": the keys of b, then the new keys of c.
RECURSIVE DictMerge(_, _)
DictMerge(b, c) ==
    IF c = <<>> THEN b
    ELSE DictMerge(IF Head(c) \in Range(b) THEN b ELSE Append(b, Head(c)), Tail(c))

create_armature_metadata(os, a) == [armature |-> a, category |-> os[a].category]
create_mesh_metadata(os, i) == [category |-> os[i].category]

\* The metadata the first loop builds for mesh object i (lines 56-73).
ObjMetadata(os, i) ==
    LET parent == get_highest_ancestor(os, i)
    IN  [materials |-> DictMerge(<<>>, os[i].materials),
         armature |-> IF parent # 0 /\ os[parent].type = "ARMATURE"
                      THEN <<create_armature_metadata(os, parent)>>
                      ELSE None,
         mesh |-> <<create_mesh_metadata(os, i)>>]

\* empty_dict[parent] after the first loop has handled the mesh objects ms
\* (lines 83-93): dict values are merged, a value that is None is replaced.
RECURSIVE EmptyDict(_, _, _, _)
EmptyDict(os, parent, ms, acc) ==
    IF ms = <<>> THEN acc
    ELSE LET metadata == ObjMetadata(os, Head(ms))
             next == IF get_highest_ancestor(os, Head(ms)) # parent THEN acc
                     ELSE [materials |-> DictMerge(acc.materials, metadata.materials),
                           armature |-> IF acc.armature = None THEN metadata.armature
                                        ELSE acc.armature,
                           mesh |-> IF acc.mesh = None THEN metadata.mesh ELSE acc.mesh]
         IN  EmptyDict(os, parent, Tail(ms), next)

\* assign_custom_metadata: obj[METADATA_NAME] of every object (None for an
\* object that is no mesh), lines 95-101.
assign_custom_metadata(os) ==
    [i \in 1..Len(os) |->
        IF os[i].type # "MESH" THEN None
        ELSE LET parent == get_highest_ancestor(os, i)
             IN  IF parent # 0 /\ os[parent].type \in {"EMPTY", "ARMATURE"}
                 THEN EmptyDict(os, parent, get_mesh_objs(os), get_empty_metadata)
                 ELSE ObjMetadata(os, i)]

\* The operator is not running while the function is followed on its own.
OperatorIdle ==
    /\ scene = [meshes |-> <<>>, actions |-> 0, hairs |-> 0]
    /\ queue = <<>>
    /\ asset_data = <<>>
    /\ asset_id = NoAssetId
    /\ ops = [o \in Ops |-> [NewOp EXCEPT !.state = "absent"]]
    /\ handlers = <<>>
    /\ pending = <<>>
    /\ draw_handlers = 0
    /\ status_text = "None"
    /\ progress = 0
    /\ log = <<>>
    /\ last_call = Call(0, "none", "NONE", "NONE", 0)

InitMeta ==
    /\ OperatorIdle
    /\ props = Properties(SEND_TO_DISK, FALSE, AllOn)
    /\ AnimIdle
    /\ MatIdle
    /\ objs \in ObjectSets(MaxObjects)
    /\ blender_metadata = <<>>

AssignCustomMetadata ==
    /\ blender_metadata = <<>>
    /\ blender_metadata' = assign_custom_metadata(objs)
    /\ UNCHANGED <<opVars, animVars, matVars, objs>>

\* delete_custom_metadata
DeleteCustomMetadata ==
    /\ blender_metadata # <<>>
    /\ blender_metadata' = <<>>
    /\ UNCHANGED <<opVars, animVars, matVars, objs>>

NextMeta == AssignCustomMetadata \/ DeleteCustomMetadata

SpecMeta == InitMeta /\ [][NextMeta]_vars

\* ------------------------------------- the NLA mute values during the export
\* A rig is the sequence of the mute values of its actions.
RigSets ==
    UNION { [1..n -> SeqsUpTo(BOOLEAN, MaxRigActions)] : n \in 1..MaxRigs }

\* The actions of a rig in their order, each taken or left out.
RECURSIVE SubSeqs(_)
SubSeqs(n) ==
    IF n = 0 THEN {<<>>}
    ELSE SubSeqs(n - 1) \cup {Append(q, n) : q \in SubSeqs(n - 1)}

\* utilities.set_all_action_mute_values and utilities.set_action_mute_value
set_all_action_mute_values(rs, r, mute) ==
    [rs EXCEPT ![r] = [a \in 1..Len(rs[r]) |-> mute]]

set_action_mute_value(rs, r, a, mute) == [rs EXCEPT ![r][a] = mute]

\* create_animation_data, lines 366-387: rig after rig, all its actions are
\* muted and an export_animation job is enqueued for each of its action names.
RECURSIVE create_animation_data_rigs(_, _, _)
create_animation_data_rigs(rs, names, r) ==
    IF r > Len(rs) THEN [rigs |-> rs, jobs |-> <<>>]
    ELSE LET muted == set_all_action_mute_values(rs, r, TRUE)
             rest == create_animation_data_rigs(muted, names, r + 1)
         IN  [rigs |-> rest.rigs,
              jobs |-> [k \in 1..Len(names[r]) |-> [rig |-> r, action |-> names[r][k]]]
                       \o rest.jobs]

\* A faulty end of export_animation: the action is not muted again.
export_animation_mute_forgotten(rs, r, a) == rs

\* export_animation, line 280 and line 292.
export_animation_unmute(rs, r, a) == set_action_mute_value(rs, r, a, FALSE)
export_animation_mute(rs, r, a) == set_action_mute_value(rs, r, a, TRUE)

AnimPc(at, r, a) == [at |-> at, rig |-> r, action |-> a]

InitAnim ==
    /\ OperatorIdle
    /\ props \in {Properties(SEND_TO_DISK, FALSE, fl) :
                    fl \in {AllOn, [AllOn EXCEPT !.import_animations = FALSE]}}
    /\ MetaIdle
    /\ MatIdle
    /\ rigs \in RigSets
    /\ action_names \in [1..Len(rigs) -> SubSeqs(MaxRigActions)]
    /\ \A r \in 1..Len(rigs) : \A k \in 1..Len(action_names[r]) :
          action_names[r][k] <= Len(rigs[r])
    /\ anim_queue = <<>>
    /\ anim_pc = AnimPc("idle", 0, 0)
    /\ anim_done = 0

\* create_animation_data
CreateAnimationData ==
    /\ anim_pc.at = "idle"
    /\ IF props.flags.import_animations
       THEN LET c == create_animation_data_rigs(rigs, action_names, 1)
            IN  rigs' = c.rigs /\ anim_queue' = c.jobs
       ELSE UNCHANGED <<rigs, anim_queue>>
    /\ anim_pc' = AnimPc("queued", 0, 0)
    /\ UNCHANGED <<opVars, metaVars, matVars, action_names, anim_done>>

\* export_animation of the job at the head of the queue, up to export_file:
\* the action is un-muted.
ExportAnimationUnmute ==
    /\ anim_pc.at = "queued"
    /\ anim_queue # <<>>
    /\ LET job == Head(anim_queue)
       IN  /\ rigs' = export_animation_unmute(rigs, job.rig, job.action)
           /\ anim_pc' = AnimPc("export", job.rig, job.action)
    /\ anim_queue' = Tail(anim_queue)
    /\ UNCHANGED <<opVars, metaVars, matVars, action_names, anim_done>>

\* export_file and export_custom_property_fcurves; the exporter may raise.
ExportAnimationFile(fails) ==
    /\ anim_pc.at = "export"
    /\ anim_pc' = [anim_pc EXCEPT !.at = IF fails THEN "raised" ELSE "exported"]
    /\ UNCHANGED <<opVars, metaVars, matVars, rigs, action_names, anim_queue, anim_done>>

\* The rest of export_animation: the action is muted again and the job returns.
ExportAnimationMute ==
    /\ anim_pc.at = "exported"
    /\ rigs' = export_animation_mute(rigs, anim_pc.rig, anim_pc.action)
    /\ anim_pc' = AnimPc("queued", 0, 0)
    /\ anim_done' = anim_done + 1
    /\ UNCHANGED <<opVars, metaVars, matVars, action_names, anim_queue>>

NextAnim ==
    \/ CreateAnimationData
    \/ ExportAnimationUnmute
    \/ \E fails \in BOOLEAN : ExportAnimationFile(fails)
    \/ ExportAnimationMute

SpecAnim == InitAnim /\ [][NextAnim]_vars

\* ------------------------------------------------- the material metadata
\* Strings are sequences of characters. texture_constants.py:
INPUT_PREFIX == <<"P", "a", "r", "a", "m", "_">>

NODE_WRANGLER_TEXTURES ==
    { <<"B", "a", "s", "e", " ", "C", "o", "l", "o", "r">>,
      <<"M", "e", "t", "a", "l", "l", "i", "c">>,
      <<"S", "p", "e", "c", "u", "l", "a", "r">>,
      <<"R", "o", "u", "g", "h", "n", "e", "s", "s">>,
      <<"G", "l", "o", "s", "s">>,
      <<"N", "o", "r", "m", "a", "l">>,
      <<"B", "u", "m", "p">>,
      <<"D", "i", "s", "p", "l", "a", "c", "e", "m", "e", "n", "t">>,
      <<"T", "r", "a", "n", "s", "m", "i", "s", "s", "i", "o", "n">>,
      <<"E", "m", "i", "s", "s", "i", "o", "n">>,
      <<"A", "l", "p", "h", "a">>,
      <<"A", "m", "b", "i", "e", "n", "t", " ", "O", "c", "c", "l", "u", "s", "i", "o", "n">> }

INVALID_FILENAME_CHARS ==
    { "!", "@", "#", "$", "%", "^", "&", "*", "(", ")", "=", "[", "]", "\\", ":", ";", "\"", "'", "<", ",", ">", ".", "/", "?", " " }

\* The values of IMAGE_EXTENSIONS, in the order of the dictionary.
IMAGE_EXTENSIONS ==
    << <<"b", "m", "p">>,
       <<"p", "n", "g">>,
       <<"j", "p", "g">>,
       <<"j", "p", "2">>,
       <<"t", "g", "a">>,
       <<"e", "x", "r">>,
       <<"h", "d", "r">>,
       <<"t", "i", "f", "f">>,
       <<"w", "e", "b", "p">> >>

\* The nodes and the texture affix of a material create_material_metadata is
\* called on.
MaxNodes == 2

\* label.find(prefix) == 0 and name.endswith(suffix)
StartsWith(str, prefix) ==
    Len(str) >= Len(prefix) /\ SubSeq(str, 1, Len(prefix)) = prefix

EndsWith(str, suffix) ==
    Len(str) >= Len(suffix)
        /\ SubSeq(str, Len(str) - Len(suffix) + 1, Len(str)) = suffix

\* label[len(INPUT_PREFIX):]
StripPrefix(label) == SubSeq(label, Len(INPUT_PREFIX) + 1, Len(label))

\* unreal_image_name: the extensions are removed one after the other, then the
\* invalid characters are replaced.
RECURSIVE RemoveExtensions(_, _)
RemoveExtensions(name, k) ==
    IF k > Len(IMAGE_EXTENSIONS) THEN name
    ELSE LET ext == <<".">> \o IMAGE_EXTENSIONS[k]
         IN  RemoveExtensions(
                 IF EndsWith(name, ext)
                 THEN SubSeq(name, 1, Len(name) - Len(ext))
                 ELSE name,
                 k + 1)

unreal_image_name(name) ==
    LET bare == RemoveExtensions(name, 1)
    IN  [i \in 1..Len(bare) |->
            IF bare[i] \in INVALID_FILENAME_CHARS THEN "_" ELSE bare[i]]

ScalarInputMetadata == [default |-> 0, texture_name |-> <<>>]
VectorInputMetadata == [default |-> <<0, 0, 0, 0>>, texture_name |-> <<>>]

\* get_scalar and get_vector: the dictionary with an entry for the label.
get_scalar(scalar_inputs, label) ==
    IF label \in DOMAIN scalar_inputs THEN scalar_inputs
    ELSE (label :> ScalarInputMetadata) @@ scalar_inputs

get_vector(vector_inputs, label) ==
    IF label \in DOMAIN vector_inputs THEN vector_inputs
    ELSE (label :> VectorInputMetadata) @@ vector_inputs

\* The nodes of a material: image texture, RGB and value nodes, with the type
\* of the socket their output is linked to ("NONE" when it has no link).
Tex(label, link, image) ==
    [type |-> "TEX_IMAGE", label |-> label, link |-> link, image |-> image,
     color |-> <<0, 0, 0, 0>>, value |-> 0]
Rgb(label, link) ==
    [type |-> "RGB", label |-> label, link |-> link, image |-> <<>>,
     color |-> <<1, 1, 1, 1>>, value |-> 0]
Value(label, link) ==
    [type |-> "VALUE", label |-> label, link |-> link, image |-> <<>>,
     color |-> <<0, 0, 0, 0>>, value |-> 1]

NodeLabels ==
    { <<"P", "a", "r", "a", "m", "_", "T", "i", "n", "t">>,
      <<"T", "i", "n", "t">>,
      <<"B", "a", "s", "e", " ", "C", "o", "l", "o", "r">>,
      <<"P", "a", "r", "a", "m", "_", "B", "a", "s", "e", " ", "C", "o", "l", "o", "r">> }

NodeKinds ==
    {Tex(l, k, <<"t", " ", "1", ".", "p", "n", "g">>) :
        l \in NodeLabels, k \in {"NONE", "RGBA", "VALUE", "SHADER"}}
    \cup {Rgb(l, k) : l \in {<<"P", "a", "r", "a", "m", "_", "T", "i", "n", "t">>, <<"T", "i", "n", "t">>}, k \in {"NONE", "RGBA"}}
    \cup {Value(l, k) : l \in {<<"P", "a", "r", "a", "m", "_", "T", "i", "n", "t">>, <<"T", "i", "n", "t">>}, k \in {"NONE", "VALUE"}}

TexturePrefixes == {<<>>, <<"T", "_">>}

\* The body of the loop of create_material_metadata for one node, lines 116-142.
material_node(md, node, prefix) ==
    IF node.type = "TEX_IMAGE"
    THEN IF node.label \in NODE_WRANGLER_TEXTURES \/ StartsWith(node.label, INPUT_PREFIX)
         THEN LET label == IF node.label \in NODE_WRANGLER_TEXTURES
                           THEN node.label
                           ELSE StripPrefix(node.label)
                  image_name == prefix \o unreal_image_name(node.image)
              IN  IF node.link # "NONE"
                  THEN IF node.link \in {"RGBA", "VECTOR"}
                       THEN [md EXCEPT !.vector_inputs =
                               [get_vector(@, label) EXCEPT ![label].texture_name = image_name]]
                       ELSE IF node.link = "VALUE"
                       THEN [md EXCEPT !.scalar_inputs =
                               [get_scalar(@, label) EXCEPT ![label].texture_name = image_name]]
                       ELSE md
                  ELSE md
         ELSE md
    ELSE IF node.type = "RGB" /\ StartsWith(node.label, INPUT_PREFIX)
    THEN [md EXCEPT !.vector_inputs =
            [get_vector(@, StripPrefix(node.label))
                EXCEPT ![StripPrefix(node.label)].default = node.color]]
    ELSE IF node.type = "VALUE" /\ StartsWith(node.label, INPUT_PREFIX)
    THEN [md EXCEPT !.scalar_inputs =
            [get_scalar(@, StripPrefix(node.label))
                EXCEPT ![StripPrefix(node.label)].default = node.value]]
    ELSE md

\* create_material_metadata: the nodes are visited in their order.
RECURSIVE material_nodes(_, _, _, _)
material_nodes(md, ns, prefix, k) ==
    IF k > Len(ns) THEN md
    ELSE material_nodes(material_node(md, ns[k], prefix), ns, prefix, k + 1)

create_material_metadata(ns, prefix) ==
    material_nodes([scalar_inputs |-> <<>>, vector_inputs |-> <<>>], ns, prefix, 1)

InitMat ==
    /\ OperatorIdle
    /\ props = Properties(SEND_TO_DISK, FALSE, AllOn)
    /\ MetaIdle
    /\ AnimIdle
    /\ nodes \in UNION {[1..n -> NodeKinds] : n \in 1..MaxNodes}
    /\ texture_prefix \in TexturePrefixes
    /\ material_metadata = <<>>

CreateMaterialMetadata ==
    /\ material_metadata = <<>>
    /\ material_metadata' = <<create_material_metadata(nodes, texture_prefix)>>
    /\ UNCHANGED <<opVars, metaVars, animVars, nodes, texture_prefix>>

NextMat == CreateMaterialMetadata

SpecMat == InitMat /\ [][NextMat]_vars

\* ------------------------------------------------------------------ claims
\* Views of the history of the latest run.
Execs == SelectSeq(log, LAMBDA e : e.ev = "exec")
Enqs == SelectSeq(log, LAMBDA e : e.ev = "enq")

SameJob(a, b) ==
    a.fn = b.fn /\ a.asset = b.asset /\ a.lod = b.lod /\ a.run = b.run /\ a.n = b.n

ExportFns == {"export_mesh", "export_animation", "export_hair"}
ImportFns ==
    {"import_asset", "import_level_sequence", "create_static_mesh_sockets",
     "reset_lods", "import_lod_files", "set_lod_build_settings"}
ProjectModes == {SEND_TO_PROJECT, SEND_TO_DISK_THEN_PROJECT}

\* C1: the jobs are executed in the order in which they were enqueued, in
\* modal() and in execute(), and none is executed twice: every executed job
\* is the job enqueued at its place, the places of the executed jobs grow
\* strictly, and the jobs still queued are later ones, in enqueue order.
C1_JobsRunInQueueOrder ==
    /\ \A i \in 1..Len(Enqs) : Enqs[i].n = i
    /\ \A i \in 1..Len(Execs) :
          /\ Execs[i].n \in 1..Len(Enqs)
          /\ SameJob(Execs[i], Enqs[Execs[i].n])
    /\ \A i \in 1..(Len(Execs) - 1) : Execs[i].n < Execs[i + 1].n
    /\ \A k \in 1..Len(queue) :
          /\ Execs # <<>> => Execs[Len(Execs)].n < queue[k].n
          /\ k < Len(queue) => queue[k].n < queue[k + 1].n

\* A modal run has executed three jobs and has more on the queue.
C1_Witness ==
    /\ last_call.kind = "modal"
    /\ Len(Execs) >= 3
    /\ queue # <<>>

\* C2: every call of modal() that returns executes at most one job, executes
\* it only on a TIMER event, and returns RUNNING_MODAL after the job.
C2_ModalRunsOneJobAndKeepsRunning ==
    (last_call.kind = "modal" /\ last_call.ret # "raise") =>
        /\ last_call.jobs <= 1
        /\ last_call.jobs = 1 =>
              last_call.event = "TIMER" /\ last_call.ret = "RUNNING_MODAL"

\* C3: in every run the export jobs are enqueued before the import jobs, and
\* so executed before them: once an import job has been enqueued (executed),
\* only import jobs are enqueued (executed) after it.
C3_ExportsBeforeImports ==
    /\ \A i \in 1..(Len(Enqs) - 1) :
          Enqs[i].fn \in ImportFns => Enqs[i + 1].fn \in ImportFns
    /\ \A i \in 1..(Len(Execs) - 1) :
          Execs[i].fn \in ImportFns => Execs[i + 1].fn \in ImportFns
    /\ \A i \in 1..Len(log) : log[i].ev \in {"enq", "exec"} =>
          log[i].fn \in ExportFns \cup ImportFns

\* A run has executed an export job and, after it, an import job.
C3_Witness ==
    /\ Len(Execs) >= 3
    /\ Execs[1].fn \in ExportFns
    /\ Execs[Len(Execs)].fn \in ImportFns
    /\ Execs[1].run = Execs[Len(Execs)].run

C5_FailedValidationEnqueuesNothing ==
    \A o \in Ops :
        (log # <<>> /\ log[1].op = o /\ ops[o].run = "invalid") =>
            /\ asset_data = <<>>
            /\ asset_id = NoAssetId
            /\ queue = <<>>
            /\ \A i \in 1..Len(log) : log[i].ev \notin {"enq", "exec", "fx", "remote"}

\* A run whose validations fail starts while an earlier run with jobs is
\* still modal.
C5_Witness ==
    /\ ops[2].run = "invalid"
    /\ log # <<>> /\ log[1].op = 2
    /\ ops[1].run = "valid" /\ ops[1].state = "modal" /\ ops[1].max_step > 0
    /\ ops[2].state = "modal"

C7_SkippedAssetsCauseNothing ==
    \A i \in 1..Len(log) : log[i].ev \in {"fx", "remote"} => ~log[i].skip

\* C8: import jobs are enqueued only in the path modes SEND_TO_PROJECT and
\* SEND_TO_DISK_THEN_PROJECT and only when there is asset data; in any other
\* path mode no import job is enqueued or executed and no remote call is made.
C8_ImportsOnlyInProjectModes ==
    /\ (\E i \in 1..Len(Enqs) : Enqs[i].fn \in ImportFns) =>
          props.path_mode \in ProjectModes /\ asset_data # <<>>
    /\ props.path_mode \notin ProjectModes =>
          \A i \in 1..Len(log) :
              /\ log[i].ev # "remote"
              /\ log[i].ev \in {"enq", "exec"} => log[i].fn \notin ImportFns

\* A run in the mode SEND_TO_DISK has asset data and has executed export jobs.
C8_Witness ==
    /\ props.path_mode = SEND_TO_DISK
    /\ asset_data # <<>>
    /\ Len(Execs) >= 2
    /\ Len(Execs) = Len(Enqs)

\* C9: invoke and execute of an instance started while Unreal is not
\* connected return FINISHED and change nothing: no pre_operation and no
\* post_operation, the same queue, asset data and handlers, no timer, no job.
C9_DisconnectedStartChangesNothing ==
    [][\A o \in Ops :
          (ops[o].state = "new" /\ ops'[o].run = "disconnected") =>
              /\ UNCHANGED <<queue, asset_data, asset_id, handlers, pending,
                             draw_handlers, status_text, progress, log>>
              /\ last_call'.op = o /\ last_call'.ret = "FINISHED"
              /\ last_call'.jobs = 0
              /\ ops'[o].pre = 0 /\ ops'[o].post = 0 /\ ~ops'[o].timer
              /\ \A p \in Ops \ {o} : ops'[p] = ops[p]]_vars

\* An instance was started without a connection while the jobs of an earlier
\* run were on the queue, and they still are.
C9_Witness ==
    /\ ops[2].run = "disconnected"
    /\ last_call.op = 2
    /\ ops[1].state = "modal"
    /\ queue # <<>>
    /\ Len(Execs) >= 1

\* C10: the level sequence import job is enqueued after every other job of the
\* run, at most once and only when export_level_sequence is on, and the level
\* sequence entry is passed to no other job; it is executed after the other
\* import jobs.
C10_LevelSequenceLast ==
    /\ \A i \in 1..Len(Enqs) :
          /\ Enqs[i].fn = "import_level_sequence" =>
                /\ i = Len(Enqs)
                /\ props.export_level_sequence
                /\ Enqs[i].asset = LevelSequenceID
          /\ Enqs[i].asset = LevelSequenceID => Enqs[i].fn = "import_level_sequence"
    /\ \A i \in 1..Len(Execs) :
          /\ Execs[i].fn = "import_level_sequence" => i = Len(Execs)
          /\ Execs[i].asset = LevelSequenceID => Execs[i].fn = "import_level_sequence"

\* The level sequence job was enqueued behind the import jobs of other assets
\* and has been executed.
C10_Witness ==
    /\ Len(Enqs) >= 4
    /\ Enqs[Len(Enqs) - 1].fn \in ImportFns
    /\ Execs # <<>>
    /\ Execs[Len(Execs)].fn = "import_level_sequence"

\* The calls of import_images in the history of the latest run.
ImageImports == SelectSeq(log, LAMBDA e : e.ev = "remote" /\ e.fn = "import_images")

\* C11: while no job has raised, every image path import_asset has passed to
\* import_images is in the images_file_paths of no asset any more, and no
\* image path is passed to import_images twice within the run.
C11_RepeatTexturesFilteredOut ==
    (\A o \in Ops : ops[o].state # "raised") =>
        /\ \A i \in 1..Len(ImageImports) : \A k \in 1..Len(asset_data) :
              Range(ImageImports[i].arg) \cap Range(asset_data[k].images_file_paths) = {}
        /\ \A i, j \in 1..Len(ImageImports) :
              i < j => Range(ImageImports[i].arg) \cap Range(ImageImports[j].arg) = {}

\* The EMPTY and ARMATURE objects among the ancestors of object i.
RECURSIVE Ancestors(_, _)
Ancestors(os, i) ==
    IF os[i].parent = 0 THEN {}
    ELSE {os[i].parent} \cup Ancestors(os, os[i].parent)

GroupAncestors(os, i) == {a \in Ancestors(os, i) : os[a].type \in {"EMPTY", "ARMATURE"}}

\* C12: once assign_custom_metadata has run, a mesh with an EMPTY or ARMATURE
\* ancestor has the same blender_metadata as every other mesh under that
\* ancestor, and its 'materials' hold the materials of all those meshes; a
\* mesh without such an ancestor has its own materials, no armature and its
\* own mesh metadata.
C12_GroupedMeshesShareMetadata ==
    blender_metadata # <<>> =>
        \A m \in Range(get_mesh_objs(objs)) :
            /\ GroupAncestors(objs, m) = {} =>
                  /\ Range(blender_metadata[m].materials) = Range(objs[m].materials)
                  /\ blender_metadata[m].armature = None
                  /\ blender_metadata[m].mesh = <<[category |-> objs[m].category]>>
            /\ \A a \in GroupAncestors(objs, m) :
                  \A m2 \in Range(get_mesh_objs(objs)) :
                      a \in GroupAncestors(objs, m2) =>
                          /\ blender_metadata[m2] = blender_metadata[m]
                          /\ Range(objs[m2].materials) \subseteq
                                Range(blender_metadata[m].materials)

\* Every action of every rig is muted.
AllMuted(rs) == \A r \in 1..Len(rs) : \A a \in 1..Len(rs[r]) : rs[r][a]

\* C13: all NLA tracks are muted during the export and un-muted one at a time.
\* When import_animations is on: once create_animation_data has run and no
\* export_animation job is running, every action of every rig is muted; while
\* an export_animation job is between its un-mute and its mute, exactly the
\* action it exports is un-muted on its rig; and every job that returns leaves
\* all actions muted.
C13_OneActionUnmutedAtATime ==
    props.flags.import_animations =>
        /\ anim_pc.at = "queued" => AllMuted(rigs)
        /\ anim_pc.at \in {"export", "exported"} =>
              /\ {a \in 1..Len(rigs[anim_pc.rig]) : ~rigs[anim_pc.rig][a]} = {anim_pc.action}
              /\ \A r \in 1..Len(rigs) : r # anim_pc.rig =>
                    \A a \in 1..Len(rigs[r]) : rigs[r][a]

\* The second action of a rig with two actions is at its export after the
\* first one has been exported, and a job of another rig is still queued.
C13_Witness ==
    /\ props.flags.import_animations
    /\ anim_pc.at = "export"
    /\ anim_done = 1
    /\ Len(rigs[anim_pc.rig]) = 2
    /\ anim_pc.action = 2
    /\ anim_queue # <<>>

\* The image texture, RGB and value nodes whose label starts with the input
\* prefix.
PrefixedNodes ==
    {i \in 1..Len(nodes) :
        /\ nodes[i].type \in {"TEX_IMAGE", "RGB", "VALUE"}
        /\ StartsWith(nodes[i].label, INPUT_PREFIX)}

\* C14: a node whose label starts with the input prefix is recorded in the
\* material metadata under its label without the prefix, whether or not its
\* output is linked: after create_material_metadata, the label without the
\* prefix of every such node is a key of vector_inputs or of scalar_inputs.
C14_PrefixedNodesRecorded ==
    material_metadata # <<>> =>
        \A i \in PrefixedNodes :
            StripPrefix(nodes[i].label) \in
                DOMAIN material_metadata[1].vector_inputs
                    \cup DOMAIN material_metadata[1].scalar_inputs

\* Instance o raises in this step out of a job it called.
JobRaises(o) ==
    /\ ops[o].state # "raised"
    /\ ops'[o].state = "raised"
    /\ last_call'.op = o
    /\ last_call'.jobs >= 1

\* The step of a failing job: the call ends with the exception, the job is off
\* the queue and the jobs behind it stay there, and post_operation is not run.
FailedJobStep(o) ==
    /\ last_call'.ret = "raise"
    /\ queue # <<>>
    /\ queue' = Tail(queue)
    /\ \A k \in 1..Len(queue') : ~SameJob(queue'[k], Head(queue))
    /\ \E i \in 1..Len(log') :
          log'[i].ev = "exec" /\ log'[i].op = o /\ SameJob(log'[i], Head(queue))
    /\ ops'[o].post = 0
    /\ \A i \in 1..Len(log') : ~(log'[i].ev = "post" /\ log'[i].op = o)

\* An instance whose call ended with an exception does nothing any more.
RaisedStaysRaised(o) ==
    /\ ops'[o] = ops[o]
    /\ \A i \in 1..Len(log') :
          log'[i].op = o => i <= Len(log) /\ log[i] = log'[i]

\* No job that was taken off the queue is on the queue or is executed again.
NoJobRetried ==
    /\ \A i \in 1..Len(Execs) : \A k \in 1..Len(queue) : ~SameJob(Execs[i], queue[k])
    /\ \A i, j \in 1..Len(Execs) : i < j => ~SameJob(Execs[i], Execs[j])

\* C15: a failure inside a queued job surfaces as an exception of modal() or
\* execute(): the call ends with the exception; the failed job has been taken
\* off the queue and is never executed again; the instance whose call failed
\* runs no further job and never calls post_operation, so in execute() the
\* jobs behind the failed one are not run by that call.
C15_JobFailurePropagates ==
    /\ []NoJobRetried
    /\ [][\A o \in Ops :
            /\ JobRaises(o) => FailedJobStep(o)
            /\ ops[o].state = "raised" => RaisedStaysRaised(o)]_vars

\* execute() has failed in its second job or later, and jobs are left behind
\* the failed one.
C15_Witness ==
    /\ last_call.kind = "execute"
    /\ last_call.ret = "raise"
    /\ last_call.jobs >= 2
    /\ ops[last_call.op].state = "raised"
    /\ queue # <<>>

\* The run that started last: the history begins with its pre_operation.
LatestRun == log[1].op

\* ESC was given to one of the instances.
EscDelivered == \E o \in Ops : ops[o].esc

\* C16: all instances share one queue, which every run clears before it
\* enqueues.  Once a run has started, every job on the queue and every job
\* executed since belongs to that run; its jobs are executed in the order in
\* which they were enqueued, none twice, by whichever instance is given the
\* TIMER event; and unless ESC was pressed every job of the run is either
\* still queued or has been executed, also when the run was started while an
\* earlier instance was still modal.
C16_SharedQueueRunsLatestJobs ==
    log # <<>> =>
        /\ \A k \in 1..Len(queue) : queue[k].run = LatestRun
        /\ \A i \in 1..Len(Execs) : Execs[i].run = LatestRun
        /\ \A i, j \in 1..Len(Execs) : i < j => Execs[i].n < Execs[j].n
        /\ \A i \in 1..Len(Execs) : \A k \in 1..Len(queue) : Execs[i].n < queue[k].n
        /\ ~EscDelivered =>
              \A i \in 1..Len(Enqs) :
                  \/ \E k \in 1..Len(queue) : SameJob(queue[k], Enqs[i])
                  \/ \E j \in 1..Len(Execs) : SameJob(Execs[j], Enqs[i])

====
